---- MODULE Spec2Model ----
(***************************************************************************)
(* The "graph" tool of the Desmos MCP server (src/src/index.ts).           *)
(*                                                                         *)
(* Text is modelled as a sequence of pieces.  A piece is either a single   *)
(* character ("x", "y", "=", "5") or one literal chunk of the handler's    *)
(* template ("</title>", "calculator.setMathBounds({ left: ").  The        *)
(* template literal of the handler concatenates its chunks with the text   *)
(* of the request, unescaped, so a request's strings may themselves hold   *)
(* the text of a template chunk.                                           *)
(***************************************************************************)
EXTENDS Integers, Sequences, FiniteSets, TLC

\* clock       the reading Date.now() returns (index.ts:154)
\* calls       the calls of the graph tool handled so far, in order: for each
\*             its request, the clock reading, what was caught, and the
\*             response returned or the exception raised (index.ts:47-233)
\* func        the function string given to the map callback (index.ts:133)
\* expression  the callback's expression, once computed (index.ts:134-141)
VARIABLES clock, calls, func, expression

vars == <<clock, calls, func, expression>>

\* ------------------------------------------------------------------ bounds
MaxCalls == 2
MaxClock == 2
MaxFuncs == 2
MaxLen == 4

\* The first clock reading of the model: the readings cross 9 -> 10, so that
\* the decimal text of a reading changes length.
Epoch == 9

\* ------------------------------------------------------- template chunks
DocHead == "<!DOCTYPE html><html lang=en><head><meta charset><meta viewport>"
TitleOpen == "<title>"
TitleClose == "</title>"
DocStyle == "<style>body{}#calculator{}</style></head><body><div id=calculator></div>"
ScriptSrc == "<script src=https://www.desmos.com/api/v1.11/calculator.js></script><script>"
CalcOpen == "var calculator = Desmos.GraphingCalculator(document.getElementById('calculator'), {"
KeypadKey == " keypad: "
GraphpaperKey == ", graphpaper: "
ExpressionsKey == ", expressions: "
FixedOptions == ", settingsMenu: true, zoomButtons: true, pointsOfInterest: true, trace: true, border: false, lockViewport: false, expressionsCollapsed: false, capExpressionSize: false, authorFeatures: false, images: true, folders: true, notes: true, sliders: true, actions: 'auto', substitutions: true, links: true, qwertyKeyboard: true, distributions: true, restrictedFunctions: false, forceEnableGeometryFunctions: false, pasteGraphLink: false, pasteTableData: true, clearIntoDegreeMode: false"
CalcClose == " });"
BoundsOpen == "calculator.setMathBounds({ left: "
BoundsRight == ", right: "
BoundsBottom == ", bottom: "
BoundsTop == ", top: "
BoundsClose == " });"
FnOpen == "calculator.setExpression({ id: 'function"
LatexOpen == "', latex: '"
StmtClose == "' });"
StmtSep == "\n        "
FitOpen == "calculator.setExpression({ id: 'fit"
FitLatex == "fit()"
RemoveFitOpen == "setTimeout(() => calculator.removeExpression({ id: 'fit"
RemoveFitArg == "' }), "
FitDelay == "1000"
RemoveFitClose == ");"
DocTail == "</script></body></html>"

DefaultTitle == <<"Function Graph">>

ErrorHead == "<!DOCTYPE html><html lang=en><head><title>Graph Creation Error</title><style>.error-container{}</style></head><body><div class=error-container><div class=error-icon>!</div><div class=error-title>Graph Creation Error</div><div class=error-message>Failed to create the function graph<br>"
ErrorTail == "</div></div></body></html>"
UnknownError == <<"Unknown error occurred">>

SuccessUriPrefix == "ui://desmos-graph/"
ErrorUri == <<"ui://error-component/desmos-graph">>

\* ------------------------------------------------------ string operations
\* String.prototype.includes
Includes(s, pat) ==
    \E i \in 1..(Len(s) - Len(pat) + 1) : SubSeq(s, i, i + Len(pat) - 1) = pat

\* String.prototype.indexOf, 1-based; 0 when pat does not occur
IndexOf(s, pat) ==
    IF Includes(s, pat)
    THEN CHOOSE i \in 1..(Len(s) - Len(pat) + 1) :
            /\ SubSeq(s, i, i + Len(pat) - 1) = pat
            /\ \A j \in 1..(i - 1) : SubSeq(s, j, j + Len(pat) - 1) # pat
    ELSE 0

\* String.prototype.replace with a string pattern: the first occurrence only
Replace(s, pat, rep) ==
    LET i == IndexOf(s, pat)
    IN IF i = 0 THEN s
       ELSE SubSeq(s, 1, i - 1) \o rep \o SubSeq(s, i + Len(pat), Len(s))

DigitChar(d) == <<"0", "1", "2", "3", "4", "5", "6", "7", "8", "9">>[d + 1]

RECURSIVE NatToString(_)
NatToString(n) ==
    IF n < 10 THEN <<DigitChar(n)>>
    ELSE NatToString(n \div 10) \o <<DigitChar(n % 10)>>

\* `${n}` of a number (the integers among them)
NumberToString(n) == IF n < 0 THEN <<"-">> \o NatToString(-n) ELSE NatToString(n)

\* `${b}` of a boolean
BooleanToString(b) == IF b THEN <<"true">> ELSE <<"false">>

RECURSIVE Join(_, _)
Join(parts, sep) ==
    IF Len(parts) = 0 THEN <<>>
    ELSE IF Len(parts) = 1 THEN parts[1]
    ELSE parts[1] \o sep \o Join(Tail(parts), sep)

\* An optional parameter is <<>> when omitted (undefined) and <<v>> when given.
Undefined == <<>>
Given(v) == <<v>>
OrDefault(opt, d) == IF opt = Undefined THEN d ELSE opt[1]

\* ------------------------------------------------------------ the handler
\* A faulty variant: title || "Function Graph": an empty title takes the default too.
ParamsFalsyTitle(req) ==
    [functions |-> req.functions,
     title |-> IF req.title = Undefined \/ req.title = Given(<<>>)
               THEN DefaultTitle ELSE req.title[1],
     xMin |-> req.xMin, xMax |-> req.xMax, yMin |-> req.yMin, yMax |-> req.yMax,
     showGrid |-> OrDefault(req.showGrid, TRUE),
     showKeypad |-> OrDefault(req.showKeypad, TRUE),
     showExpressions |-> OrDefault(req.showExpressions, TRUE)]

\* The destructured parameters with their defaults.
Params(req) ==
    [functions |-> req.functions,
     title |-> OrDefault(req.title, DefaultTitle),
     xMin |-> req.xMin, xMax |-> req.xMax, yMin |-> req.yMin, yMax |-> req.yMax,
     showGrid |-> OrDefault(req.showGrid, TRUE),
     showKeypad |-> OrDefault(req.showKeypad, TRUE),
     showExpressions |-> OrDefault(req.showExpressions, TRUE)]

\* The widget's options object.
CalculatorOptions(showKeypad, showGrid, showExpressions) ==
    <<CalcOpen, KeypadKey>> \o BooleanToString(showKeypad)
        \o <<GraphpaperKey>> \o BooleanToString(showGrid)
        \o <<ExpressionsKey>> \o BooleanToString(showExpressions)
        \o <<FixedOptions, CalcClose>>

\* A faulty variant: xMin && xMax && yMin && yMax: a bound of 0 counts as omitted.
MathBoundsTruthy(xMin, xMax, yMin, yMax) ==
    IF /\ xMin # Undefined /\ xMax # Undefined /\ yMin # Undefined /\ yMax # Undefined
       /\ xMin[1] # 0 /\ xMax[1] # 0 /\ yMin[1] # 0 /\ yMax[1] # 0
    THEN <<BoundsOpen>> \o NumberToString(xMin[1])
            \o <<BoundsRight>> \o NumberToString(xMax[1])
            \o <<BoundsBottom>> \o NumberToString(yMin[1])
            \o <<BoundsTop>> \o NumberToString(yMax[1])
            \o <<BoundsClose>>
    ELSE <<>>

\* The viewport part of the template.
MathBounds(xMin, xMax, yMin, yMax) ==
    IF xMin # Undefined /\ xMax # Undefined /\ yMin # Undefined /\ yMax # Undefined
    THEN <<BoundsOpen>> \o NumberToString(xMin[1])
            \o <<BoundsRight>> \o NumberToString(xMax[1])
            \o <<BoundsBottom>> \o NumberToString(yMin[1])
            \o <<BoundsTop>> \o NumberToString(yMax[1])
            \o <<BoundsClose>>
    ELSE <<>>

\* A faulty variant: replaceAll: every "y=" is removed.
RECURSIVE ExpressionReplaceAll(_)
ExpressionReplaceAll(f) ==
    IF Includes(f, <<"y", "=">>)
    THEN ExpressionReplaceAll(Replace(f, <<"y", "=">>, <<>>))
    ELSE f

\* The expression registered for a function string.
Expression(f) ==
    IF Includes(f, <<"y", "=">>) THEN Replace(f, <<"y", "=">>, <<>>)
    ELSE IF Includes(f, <<"=">>) THEN f
    ELSE f

\* A faulty variant: ids counted from 1.
StatementOneBased(f, index) ==
    <<FnOpen>> \o NumberToString(index + 1) \o <<LatexOpen>> \o Expression(f) \o <<StmtClose>>

\* The statement the map callback returns; index is 0-based.
Statement(f, index) ==
    <<FnOpen>> \o NumberToString(index) \o <<LatexOpen>> \o Expression(f) \o <<StmtClose>>

Statements(functions) ==
    Join([i \in 1..Len(functions) |-> Statement(functions[i], i - 1)], <<StmtSep>>)

\* A faulty variant: the fit expression is registered and never removed.
FitStatementsNoRemoval == <<FitOpen, LatexOpen, FitLatex, StmtClose>>

\* The auto-fit expression and its delayed removal.
FitStatements ==
    <<FitOpen, LatexOpen, FitLatex, StmtClose, RemoveFitOpen, RemoveFitArg, FitDelay, RemoveFitClose>>

\* The template literal of the success path.
htmlContent(p) ==
    <<DocHead, TitleOpen>> \o p.title \o <<TitleClose, DocStyle, ScriptSrc>>
        \o CalculatorOptions(p.showKeypad, p.showGrid, p.showExpressions)
        \o MathBounds(p.xMin, p.xMax, p.yMin, p.yMax)
        \o Statements(p.functions)
        \o FitStatements
        \o <<DocTail>>

\* A faulty variant: the clock read in coarser units.
SuccessUriCoarse(now) == <<SuccessUriPrefix>> \o NumberToString(now \div 10)

SuccessUri(now) == <<SuccessUriPrefix>> \o NumberToString(now)

\* A faulty variant: the message of whatever was thrown.
ErrorTextAnyMessage(error) == error.message

\* The text shown for a caught value.
ErrorText(error) == IF error.isError THEN error.message ELSE UnknownError

ErrorHtml(error) == <<ErrorHead>> \o ErrorText(error) \o <<ErrorTail>>

\* The resource-wrapping helper of @mcp-ui/server: it returns the resource
\* made of its arguments, or throws.  behaviour is Undefined when it returns
\* and Given(e) when it throws e.
createUIResource(args, behaviour) ==
    IF behaviour = Undefined
    THEN [threw |-> FALSE, value |-> args]
    ELSE [threw |-> TRUE, error |-> behaviour[1]]

UIResourceArgs(uri, html) ==
    [uri |-> uri, content |-> [type |-> "rawHtml", htmlString |-> html], encoding |-> "blob"]

\* A faulty variant: the URI numbered by a counter of the calls so far.
TryBlockCallCounter(req, now, wrapTry) ==
    createUIResource(UIResourceArgs(SuccessUri(Len(calls)), htmlContent(Params(req))), wrapTry)

\* The try block: the document, then the wrapped resource.
TryBlock(req, now, wrapTry) ==
    createUIResource(UIResourceArgs(SuccessUri(now), htmlContent(Params(req))), wrapTry)

\* The catch block.
CatchBlock(error, wrapCatch) ==
    createUIResource(UIResourceArgs(ErrorUri, ErrorHtml(error)), wrapCatch)

\* One call of the handler, start to end: what the caller observes.
Handler(req, now, wrapTry, wrapCatch) ==
    LET t == TryBlock(req, now, wrapTry)
        base == [req |-> req, now |-> now, attempts |-> 1]
    IN IF ~t.threw
       THEN base @@ [status |-> "succeeded", content |-> <<t.value>>,
                     caught |-> Undefined, raised |-> Undefined]
       ELSE LET c == CatchBlock(t.error, wrapCatch)
            IN IF ~c.threw
               THEN base @@ [status |-> "recovered", content |-> <<c.value>>,
                             caught |-> Given(t.error), raised |-> Undefined]
               ELSE base @@ [status |-> "raised", content |-> <<>>,
                             caught |-> Given(t.error), raised |-> Given(c.error)]

\* ------------------------------------------------------------- the inputs
PlainChars == {"x", "y", "="}

RECURSIVE StringsOfLen(_)
StringsOfLen(n) ==
    IF n = 0 THEN {<<>>}
    ELSE {Append(s, ch) : s \in StringsOfLen(n - 1), ch \in PlainChars}

Strings == UNION {StringsOfLen(n) : n \in 0..MaxLen}

\* Function strings that hold template text.
HostileFn == <<"x", StmtClose, FnOpen, "7", LatexOpen, "x">>
HostileFit == <<"x", StmtClose, FitOpen, LatexOpen, FitLatex, StmtClose, RemoveFitOpen, RemoveFitArg, FitDelay, RemoveFitClose, FnOpen, "8", LatexOpen, "x">>
HostileBounds == <<"x", StmtClose, BoundsOpen, "1", BoundsRight, "2", BoundsBottom, "3", BoundsTop, "4", BoundsClose, "//">>
HostileTitle == <<"W", TitleClose, "<script>", FnOpen, "9", LatexOpen, "x", StmtClose, "</script>", TitleOpen, "V">>

FuncPool == {<<"y", "=", "x">>, <<"x", "=", "y">>, HostileFn, HostileFit, HostileBounds}

RECURSIVE ListsOfLen(_, _)
ListsOfLen(S, n) ==
    IF n = 0 THEN {<<>>}
    ELSE {Append(l, e) : l \in ListsOfLen(S, n - 1), e \in S}

\* z.array(z.string()).min(1): at least one function.
FuncLists(S) == UNION {ListsOfLen(S, n) : n \in 1..MaxFuncs}

Titles == {Undefined, Given(<<>>), Given(<<"W">>), Given(HostileTitle)}

Flags == {Undefined, Given(TRUE), Given(FALSE)}

ZeroViewport == [xMin |-> Given(0), xMax |-> Given(0), yMin |-> Given(0), yMax |-> Given(0)]

NoViewport == [xMin |-> Undefined, xMax |-> Undefined, yMin |-> Undefined, yMax |-> Undefined]

\* The viewport fields: every pattern of given and omitted fields with four
\* different values, and the viewport of four zeros.
Viewports ==
    {[xMin |-> IF "xMin" \in g THEN Given(-5) ELSE Undefined,
      xMax |-> IF "xMax" \in g THEN Given(5) ELSE Undefined,
      yMin |-> IF "yMin" \in g THEN Given(-12) ELSE Undefined,
      yMax |-> IF "yMax" \in g THEN Given(3) ELSE Undefined] :
        g \in SUBSET {"xMin", "xMax", "yMin", "yMax"}}
    \cup {ZeroViewport}

Request(functions, title, v, grid, keypad, exprs) ==
    [functions |-> functions, title |-> title,
     xMin |-> v.xMin, xMax |-> v.xMax, yMin |-> v.yMin, yMax |-> v.yMax,
     showGrid |-> grid, showKeypad |-> keypad, showExpressions |-> exprs]

\* What a collaborator can throw: an Error with a message, an Error with an
\* empty message, and a value that is no Error.
Thrown == {[isError |-> TRUE, message |-> <<"boom">>],
           [isError |-> TRUE, message |-> <<>>],
           [isError |-> FALSE, message |-> <<"boom">>]}

Behaviours == {Undefined} \cup {Given(e) : e \in Thrown}

\* The viewport and the flags fill different parts of the template: every
\* viewport with two settings of the three flags (grid, keypad, expressions),
\* and every setting of the flags with two viewports.
Shapes ==
    {s \in Viewports \X (Flags \X Flags \X Flags) :
        \/ s[1] \in {NoViewport, ZeroViewport}
        \/ s[2] \in {<<Undefined, Undefined, Undefined>>,
                      <<Given(FALSE), Undefined, Given(TRUE)>>}}

\* ------------------------------------------------------------ transitions
Init ==
    /\ clock = Epoch
    /\ calls = <<>>
    /\ func = <<>>
    /\ expression = Undefined

\* Date.now() moves on between calls.
Tick ==
    /\ clock < Epoch + MaxClock
    /\ clock' = clock + 1
    /\ UNCHANGED <<calls, func, expression>>

\* One call of the graph tool.  The handler has no await: it runs from start
\* to end without another call in between.
Graph(req, wrapTry, wrapCatch) ==
    /\ calls' = Append(calls, Handler(req, clock, wrapTry, wrapCatch))
    /\ UNCHANGED <<clock, func, expression>>

\* Calls one after the other, with collaborators that may throw.
SmallRequests ==
    {Request(<<f>>, t, v, Undefined, g, Undefined) :
        f \in {<<"y", "=", "x">>}, t \in {Undefined}, g \in {Undefined, Given(FALSE)},
        v \in {NoViewport}}

GraphCall ==
    /\ Len(calls) < MaxCalls
    /\ \E req \in SmallRequests, wrapTry \in Behaviours :
          \* in the catch block the helper works, or throws as it did before
          \E wrapCatch \in {Undefined, wrapTry} : Graph(req, wrapTry, wrapCatch)

Next == GraphCall \/ Tick

Spec == Init /\ [][Next]_vars

\* One call, over the requests' whole range, with collaborators that work.
DocRequest(fs, t, s) == Request(fs, t, s[1], s[2][1], s[2][2], s[2][3])

GraphDoc ==
    /\ calls = <<>>
    /\ \E fs \in FuncLists(FuncPool), t \in Titles, s \in Shapes :
          Graph(DocRequest(fs, t, s), Undefined, Undefined)

NextDoc == GraphDoc

SpecDoc == Init /\ [][NextDoc]_vars

\* The normalization alone, over every string of PlainChars up to MaxLen.
InitNormalize ==
    /\ clock = Epoch
    /\ calls = <<>>
    /\ func \in Strings
    /\ expression = Undefined

Normalize ==
    /\ expression = Undefined
    /\ expression' = Given(Expression(func))
    /\ UNCHANGED <<clock, calls, func>>

NextNormalize == Normalize

SpecNormalize == InitNormalize /\ [][NextNormalize]_vars

\* ------------------------------------------------- reading a document back
Positions(doc, piece) == {i \in 1..Len(doc) : doc[i] = piece}

\* The k-th smallest element of a set of positions.
Nth(P, k) == CHOOSE i \in P : Cardinality({j \in P : j < i}) = k - 1

\* The first position after i that holds piece; Len(doc) + 1 when none does.
NextPos(doc, i, piece) ==
    IF \E j \in (i + 1)..Len(doc) : doc[j] = piece
    THEN CHOOSE j \in (i + 1)..Len(doc) :
            doc[j] = piece /\ \A k \in (i + 1)..(j - 1) : doc[k] # piece
    ELSE Len(doc) + 1

\* The text after position i, up to the next piece.
TextUntil(doc, i, piece) == SubSeq(doc, i + 1, NextPos(doc, i, piece) - 1)

\* text stands in doc from position i on.
OccursAt(doc, i, text) ==
    /\ i + Len(text) - 1 <= Len(doc)
    /\ SubSeq(doc, i, i + Len(text) - 1) = text

RECURSIVE ParseNat(_)
ParseNat(digits) ==
    IF Len(digits) = 0 THEN 0
    ELSE LET d == digits[Len(digits)]
             v == CHOOSE n \in 0..9 : DigitChar(n) = d
         IN 10 * ParseNat(SubSeq(digits, 1, Len(digits) - 1)) + v

IsDigits(text) ==
    /\ Len(text) > 0
    /\ \A i \in 1..Len(text) : \E n \in 0..9 : DigitChar(n) = text[i]

Succeeded(c) == c.status = "succeeded"
Recovered(c) == c.status = "recovered"
Returned(c) == Succeeded(c) \/ Recovered(c)
Resource(c) == c.content[1]
Html(c) == Resource(c).content.htmlString

\* The strings of a request: its function strings and its title, if given.
UserTexts(req) ==
    {req.functions[i] : i \in 1..Len(req.functions)}
        \cup (IF req.title = Undefined THEN {} ELSE {req.title[1]})

\* No string of the request holds the piece.
Free(req, piece) == \A t \in UserTexts(req) : \A i \in 1..Len(t) : t[i] # piece

\* ----------------------------------------------------------------- claims

\* C1 (as claimed): whatever a collaborator throws, the handler never raises
\* to its caller: every call returns a response, and a call in which
\* something was thrown returns the error resource as its one content item.
C1_NeverRaises ==
    \A i \in DOMAIN calls :
        /\ calls[i].status # "raised"
        /\ calls[i].raised = Undefined
        /\ calls[i].caught # Undefined =>
              /\ Len(calls[i].content) = 1
              /\ Resource(calls[i]).uri = ErrorUri

\* The document of call c holds exactly one registration statement per
\* function, in input order, with ids function0 .. function(N-1) and the
\* normalized texts.
StatementsAsClaimed(c) ==
    LET doc == Html(c)
        fs == c.req.functions
        P == Positions(doc, FnOpen)
    IN /\ Cardinality(P) = Len(fs)
       /\ \A k \in 1..Len(fs) :
             OccursAt(doc, Nth(P, k),
                      <<FnOpen>> \o NumberToString(k - 1) \o <<LatexOpen>>
                          \o Expression(fs[k]) \o <<StmtClose>>)

AllFourGiven(req) ==
    req.xMin # Undefined /\ req.xMax # Undefined /\ req.yMin # Undefined /\ req.yMax # Undefined

BoundsAsClaimed(c) ==
    LET doc == Html(c)
        P == Positions(doc, BoundsOpen)
        req == c.req
    IN /\ (P # {}) <=> AllFourGiven(req)
       /\ AllFourGiven(req) =>
             /\ Cardinality(P) = 1
             /\ OccursAt(doc, Nth(P, 1),
                         <<BoundsOpen>> \o NumberToString(req.xMin[1])
                             \o <<BoundsRight>> \o NumberToString(req.xMax[1])
                             \o <<BoundsBottom>> \o NumberToString(req.yMin[1])
                             \o <<BoundsTop>> \o NumberToString(req.yMax[1])
                             \o <<BoundsClose>>)

C4_Normalization ==
    expression # Undefined =>
        LET e == expression[1]
            Y == {i \in 1..(Len(func) - 1) : func[i] = "y" /\ func[i + 1] = "="}
        IN IF Y # {}
           THEN LET i == CHOOSE k \in Y : \A j \in Y : k <= j
                IN e = SubSeq(func, 1, i - 1) \o SubSeq(func, i + 2, Len(func))
           ELSE e = func

C4_Witness ==
    /\ func = <<"y", "=", "y", "=">>
    /\ expression = Given(<<"y", "=">>)

\* C5 (as claimed): any two successful calls return different
\* URIs.
C5_UriUniquePerCall ==
    \A i, j \in DOMAIN calls :
        (i # j /\ Succeeded(calls[i]) /\ Succeeded(calls[j])) =>
            Resource(calls[i]).uri # Resource(calls[j]).uri

\* C5 (amended): the success URI is ui://desmos-graph/ followed by the decimal
\* text of the call's Date.now() reading, so two successful calls return
\* different URIs when their readings differ (and the same URI when the
\* readings are the same millisecond).
C5_UriUniquePerReading ==
    \A i, j \in DOMAIN calls :
        (Succeeded(calls[i]) /\ Succeeded(calls[j])) =>
            /\ Resource(calls[i]).uri[1] = SuccessUriPrefix
            /\ IsDigits(Tail(Resource(calls[i]).uri))
            /\ ParseNat(Tail(Resource(calls[i]).uri)) = calls[i].now
            /\ (calls[i].now # calls[j].now) <=> (Resource(calls[i]).uri # Resource(calls[j]).uri)

C5_Witness ==
    \E i, j \in DOMAIN calls :
        /\ Succeeded(calls[i]) /\ Succeeded(calls[j])
        /\ calls[i].now = 9 /\ calls[j].now = 10
        /\ Resource(calls[i]).uri # Resource(calls[j]).uri

GraphPieces ==
    {TitleOpen, ScriptSrc, CalcOpen, BoundsOpen, FnOpen, FitOpen, RemoveFitOpen, DocTail}

FitAsClaimed(c) ==
    LET doc == Html(c)
        F == Positions(doc, FitOpen)
        R == Positions(doc, RemoveFitOpen)
    IN /\ Cardinality(F) = 1
       /\ OccursAt(doc, Nth(F, 1),
                   <<FitOpen, "', latex: '", "fit()", "' });">>)
       /\ \A p \in Positions(doc, FnOpen) : p < Nth(F, 1)
       /\ Cardinality(R) = 1
       /\ Nth(R, 1) > Nth(F, 1)
       /\ OccursAt(doc, Nth(R, 1), <<RemoveFitOpen, "' }), ", "1000", ");">>)

FlagText(opt) == IF opt = Undefined \/ opt = <<TRUE>> THEN "true" ELSE "false"

TitleAndOptionsAsClaimed(c) ==
    LET doc == Html(c)
        req == c.req
        t == NextPos(doc, 0, TitleOpen)
        o == NextPos(doc, NextPos(doc, t, TitleClose), CalcOpen)
    IN /\ TextUntil(doc, t, TitleClose) =
              (IF req.title = Undefined THEN <<"Function Graph">> ELSE req.title[1])
       /\ TextUntil(doc, o, CalcClose) =
              <<KeypadKey, FlagText(req.showKeypad),
                GraphpaperKey, FlagText(req.showGrid),
                ExpressionsKey, FlagText(req.showExpressions),
                FixedOptions>>

TitleFree(req) ==
    req.title = Undefined \/ \A k \in 1..Len(req.title[1]) : req.title[1][k] # TitleClose

\* C8 (amended): the same, for the requests whose title, if given, does not
\* hold the closing tag </title>.

C9_TwoTerminalOutcomes ==
    \A i \in DOMAIN calls :
        /\ calls[i].status \in {"succeeded", "recovered"}
        /\ Succeeded(calls[i]) <=> calls[i].caught = Undefined
        /\ Recovered(calls[i]) <=> calls[i].caught # Undefined
        /\ Len(calls[i].content) = 1
        /\ Resource(calls[i]).content.type = "rawHtml"
        /\ Resource(calls[i]).encoding = "blob"
        /\ calls[i].attempts <= 1

SameResponse(c, d) == c.status = d.status /\ c.content = d.content

CallsIndependent(log) ==
    \A i, j \in DOMAIN log :
        LET c == log[i]
            d == log[j]
        IN /\ (c.req = d.req /\ c.now = d.now /\ c.caught = d.caught /\ c.raised = d.raised)
                  => SameResponse(c, d)
           /\ (c.req = d.req /\ Succeeded(c) /\ Succeeded(d)) => Html(c) = Html(d)
           /\ (Returned(c) /\ c.status = d.status /\ c.now = d.now)
                  => Resource(c).uri = Resource(d).uri

====
